---- MODULE Spec2Model ----
(***************************************************************************)
(* Session state machine and result interpreter of circquantico.py         *)
(* ("Laboratorio Quantico Interativo").  One TLA+ action is one script run *)
(* triggered by one widget event: the handler in setup_sidebar or          *)
(* display_main_area that the event selects, its st.rerun(), and the       *)
(* initialize_app_state() call that opens the next run.                    *)
(***************************************************************************)
EXTENDS Integers, Sequences, FiniteSets, TLC

VARIABLES session_state, event, analysis

vars == <<session_state, event, analysis>>

(* ------------------------------ bounds -------------------------------- *)

\* 'Adicionar Operação' is pressed while the size of the circuit, its number
\* of instructions times its number of qubits, is below MaxData
MaxData == 4

\* small counts 0..MaxCount drawn for the interpreter's input distributions
MaxCount == 3

(* ------------------------- program constants -------------------------- *)

SHOTS == 1024

num_qubits_options == {1, 2, 3, 4}

GateTypes == {"H", "X", "Z", "RZ", "CNOT", "Medir Qubit", "Medir Todos"}

Examples == {"Nenhum", "Teste 1: Superposição", "Teste 2: Emaranhamento",
             "Teste 3: Interferência"}

\* the position of the slider "Ângulo θ (graus)" the model adds RZ with
Thetas == {90}

\* Python's None; every optional value of the model is a record
None == [isNone |-> TRUE]

(* ------------------- QuantumCircuit (external library) ---------------- *)

RECURSIVE SumSeq(_)
SumSeq(s) == IF s = <<>> THEN 0 ELSE Head(s) + SumSeq(Tail(s))

\* QuantumCircuit(n, m): n qubits, one classical register of m bits, no data
QuantumCircuit(n, m) == [num_qubits |-> n, cregs |-> <<m>>, data |-> <<>>]

num_clbits(qc) == SumSeq(qc.cregs)

Instr(name, qubits, clbits, params) ==
    [name |-> name, qubits |-> qubits, clbits |-> clbits, params |-> params]

\* faulty variant: the instruction is put in front of the data
Append1_front(qc, ins) == [qc EXCEPT !.data = <<ins>> \o @]

Append1(qc, ins) == [qc EXCEPT !.data = Append(@, ins)]

qc_h(qc, q) == Append1(qc, Instr("h", <<q>>, <<>>, <<>>))
qc_x(qc, q) == Append1(qc, Instr("x", <<q>>, <<>>, <<>>))
qc_z(qc, q) == Append1(qc, Instr("z", <<q>>, <<>>, <<>>))
\* the angle is kept as the degrees np.deg2rad is applied to
qc_rz(qc, theta, q) == Append1(qc, Instr("rz", <<q>>, <<>>, <<[deg2rad |-> theta]>>))
qc_cx(qc, c, t) == Append1(qc, Instr("cx", <<c, t>>, <<>>, <<>>))
qc_measure(qc, q, c) == Append1(qc, Instr("measure", <<q>>, <<c>>, <<>>))

\* measure_all(inplace=True): a new classical register of num_qubits bits, a
\* barrier over all qubits, then one measure per qubit into the new register
measure_all(qc) ==
    LET n == qc.num_qubits
        base == num_clbits(qc)
        meas == [i \in 1..n |-> Instr("measure", <<i - 1>>, <<base + i - 1>>, <<>>)]
        barrier == Instr("barrier", [i \in 1..n |-> i - 1], <<>>, <<>>)
    IN  [qc EXCEPT !.cregs = Append(@, n),
                   !.data = (@ \o <<barrier>>) \o meas]

(* --------------------------- session store ---------------------------- *)

\* st.session_state as a function from the keys present to their values
Has(s, k) == k \in DOMAIN s

Set(s, k, v) == [x \in DOMAIN s \cup {k} |-> IF x = k THEN v ELSE s[x]]

Get(s, k, default) == IF Has(s, k) THEN s[k] ELSE default

EmptySession == [x \in {} |-> None]

\* faulty variant: the state vector survives the reset
force_reset_circuit_keeps_statevector(s) ==
    LET num_q == IF Has(s, "num_qubits") THEN s["num_qubits"] ELSE 1
        s1 == Set(s, "circuit", QuantumCircuit(num_q, num_q))
        s2 == Set(s1, "counts", None)
    IN  Set(s2, "statevector", Get(s, "statevector", None))

force_reset_circuit(s) ==
    LET num_q == IF Has(s, "num_qubits") THEN s["num_qubits"] ELSE 1
        s1 == Set(s, "circuit", QuantumCircuit(num_q, num_q))
        s2 == Set(s1, "counts", None)
    IN  Set(s2, "statevector", None)

\* faulty variant: an existing circuit is kept whatever its width
initialize_app_state_no_compare(s) ==
    LET s1 == IF ~Has(s, "num_qubits") THEN Set(s, "num_qubits", 1) ELSE s
    IN  IF ~Has(s1, "circuit") THEN force_reset_circuit(s1) ELSE s1

initialize_app_state(s) ==
    LET s1 == IF ~Has(s, "num_qubits") THEN Set(s, "num_qubits", 1) ELSE s
    IN  IF ~Has(s1, "circuit") \/ s1["circuit"].num_qubits # s1["num_qubits"]
        THEN force_reset_circuit(s1)
        ELSE s1

(* ------------------------ result interpreter -------------------------- *)

MSG_SUPERPOSICAO == "Fenômeno Observado: Superposição!"
MSG_INTERFERENCIA == "Fenômeno Observado: Interferência Destrutiva!"
MSG_DETERMINISTICO_1 == "Estado Determinístico |1>!"
MSG_DESIGUAIS == "superposição com probabilidades desiguais"
MSG_EMARANHAMENTO == "Fenômeno Observado: Emaranhamento!"
MSG_DISTRIBUICAO == "distribuição de probabilidades entre os quatro possíveis estados"
MSG_VAZIA == ""

\* sum(counts.values())
RECURSIVE SumValues(_)
SumValues(d) ==
    IF DOMAIN d = {} THEN 0
    ELSE LET k == CHOOSE x \in DOMAIN d : TRUE
         IN  d[k] + SumValues([x \in DOMAIN d \ {k} |-> d[x]])

\* counts.get(key, 0)
dict_get(d, key) == IF key \in DOMAIN d THEN d[key] ELSE 0

\* faulty variants: the bound 0.4 included; the bound 0.999 for 0.99; the
\* bound 0.99 included
gt_04_inclusive(a, total) == 10 * a >= 4 * total
gt_0999(a, total) == 1000 * a > 999 * total
gt_099_inclusive(a, total) == 100 * a >= 99 * total

\* Comparisons of the quotient a / total with the literals 0.4, 0.6 and 0.99.
\* For the totals of the model (at most a few thousand) the double a / total
\* lies on the same side of the literal as the exact fraction, and equals the
\* literal exactly when the fraction does, so the comparisons are exact.
gt_04(a, total) == 10 * a > 4 * total
lt_06(a, total) == 10 * a < 6 * total
gt_099(a, total) == 100 * a > 99 * total

RECURSIVE PowMod(_, _, _)
PowMod(b, e, m) == IF e = 0 THEN 1 % m ELSE (b * PowMod(b, e - 1, m)) % m

\* The rounding error of the double a / total for a / total in [0.25, 0.5),
\* where doubles are 2^-54 apart, in units of 2^-54 / total: a * 2^54 / total
\* is rounded to the nearest integer (a tie cannot occur for total < 2^54).
RoundErr(a, total) ==
    LET r == (a * PowMod(2, 54, total)) % total
    IN  IF 2 * r < total THEN 0 - r ELSE total - r

\* 1 - (prob_00 + prob_11) < 0.1 in doubles, evaluated after prob_00 > 0.4 and
\* prob_11 > 0.4.  Off the boundary (a + b) / total = 0.9 the doubles lie on
\* the side of 0.1 the exact fractions lie on.  On the boundary both quotients
\* lie in (0.4, 0.5); the exact sum of the two doubles is the double 0.9 when
\* the rounding errors add up to +0.4 * 2^-54, and then 1 - 0.9 is below the
\* double 0.1; it is half way below the double 0.9 when they add up to
\* -0.6 * 2^-54, the sum rounds to the even neighbour below, and the
\* difference is above 0.1.
others_lt_01(a, b, total) ==
    IF 10 * (a + b) = 9 * total
    THEN RoundErr(a, total) + RoundErr(b, total) > 0
    ELSE 10 * (total - (a + b)) < total

\* faulty variant: a qubit count other than 1 is analysed as 2 qubits
interpret_results_else(counts, num_qubits) ==
    IF DOMAIN counts = {} THEN MSG_VAZIA
    ELSE LET total_shots == SumValues(counts) IN
         IF num_qubits = 1 THEN
            LET c0 == dict_get(counts, "0")
                c1 == dict_get(counts, "1")
            IN  IF gt_04(c0, total_shots) /\ lt_06(c0, total_shots)
                   /\ gt_04(c1, total_shots) /\ lt_06(c1, total_shots)
                THEN MSG_SUPERPOSICAO
                ELSE IF gt_099(c0, total_shots) THEN MSG_INTERFERENCIA
                ELSE IF gt_099(c1, total_shots) THEN MSG_DETERMINISTICO_1
                ELSE MSG_DESIGUAIS
         ELSE LET c00 == dict_get(counts, "00")
                  c11 == dict_get(counts, "11")
              IN  IF gt_04(c00, total_shots) /\ gt_04(c11, total_shots)
                     /\ others_lt_01(c00, c11, total_shots)
                  THEN MSG_EMARANHAMENTO
                  ELSE MSG_DISTRIBUICAO

interpret_results(counts, num_qubits) ==
    IF DOMAIN counts = {} THEN MSG_VAZIA
    ELSE LET total_shots == SumValues(counts) IN
         IF num_qubits = 1 THEN
            LET c0 == dict_get(counts, "0")
                c1 == dict_get(counts, "1")
            IN  IF gt_04(c0, total_shots) /\ lt_06(c0, total_shots)
                   /\ gt_04(c1, total_shots) /\ lt_06(c1, total_shots)
                THEN MSG_SUPERPOSICAO
                ELSE IF gt_099(c0, total_shots) THEN MSG_INTERFERENCIA
                ELSE IF gt_099(c1, total_shots) THEN MSG_DETERMINISTICO_1
                ELSE MSG_DESIGUAIS
         ELSE IF num_qubits = 2 THEN
            LET c00 == dict_get(counts, "00")
                c11 == dict_get(counts, "11")
            IN  IF gt_04(c00, total_shots) /\ gt_04(c11, total_shots)
                   /\ others_lt_01(c00, c11, total_shots)
                THEN MSG_EMARANHAMENTO
                ELSE MSG_DISTRIBUICAO
         ELSE MSG_VAZIA

(* ------------------- simulation backend (external) -------------------- *)

BitStr(b) == IF b = 1 THEN "1" ELSE "0"

\* the bits lo..hi of one classical register, highest index leftmost
RECURSIVE RegStr(_, _, _)
RegStr(mem, lo, hi) ==
    IF hi < lo THEN "" ELSE BitStr(mem[hi]) \o RegStr(mem, lo, hi - 1)

\* the key get_counts() gives a memory: registers separated by a space, the
\* register added last leftmost
RECURSIVE FormatKey(_, _, _)
FormatKey(mem, cregs, off) ==
    IF cregs = <<>> THEN ""
    ELSE LET this == RegStr(mem, off, off + Head(cregs) - 1)
             rest == FormatKey(mem, Tail(cregs), off + Head(cregs))
         IN  IF rest = "" THEN this ELSE (rest \o " ") \o this

HasMeasure(qc) == \E i \in 1..Len(qc.data) : qc.data[i].name = "measure"

MeasuredClbits(qc) ==
    {qc.data[i].clbits[1] : i \in {j \in 1..Len(qc.data) : qc.data[j].name = "measure"}}

\* outcomes the model lets the sampler observe: every measured bit reads b,
\* the bits no measure writes stay 0
Outcome(qc, b) ==
    [i \in 0..(num_clbits(qc) - 1) |-> IF i \in MeasuredClbits(qc) THEN b ELSE 0]

\* how the shots divide between the two outcomes
Splits(shots) == {<<shots, 0>>, <<shots \div 2, shots - shots \div 2>>,
                  <<300, shots - 300>>}

Counts(qc, split) ==
    LET k0 == FormatKey(Outcome(qc, 0), qc.cregs, 0)
        k1 == FormatKey(Outcome(qc, 1), qc.cregs, 0)
        keys == {k \in {k0, k1} : (IF k = k0 THEN split[1] ELSE split[2]) > 0}
    IN  [dist |-> [k \in keys |-> IF k = k0 THEN split[1] ELSE split[2]],
         qc |-> qc]

\* what one job of the external backend does: it raises, or it completes with
\* the shots divided as split says
Jobs(shots) == {[raises |-> TRUE]} \cup {[raises |-> FALSE, split |-> sp] : sp \in Splits(shots)}

\* faulty variant: a job is run for a circuit without any measure
run_measurement_simulation_unguarded(qc, shots, job) ==
    IF job.raises THEN None ELSE Counts(qc, job.split)

\* None after the warning, None after a caught exception, else the counts
run_measurement_simulation(qc, shots, job) ==
    IF num_clbits(qc) = 0 \/ ~HasMeasure(qc) THEN None
    ELSE IF job.raises THEN None
    ELSE Counts(qc, job.split)

\* sv_qc: the copy with the measure instructions removed
StripMeasures(qc) ==
    [qc EXCEPT !.data = SelectSeq(@, LAMBDA g : g.name # "measure")]

\* the result of the statevector job: the state of sv_qc, for the circuit qc
Statevector(qc) == [state |-> StripMeasures(qc).data, qc |-> qc]

\* faulty variant: a failed job leaves a result instead of None
calculate_statevector_default(qc, raises) == Statevector(qc)

\* None after a caught exception, else the state vector of sv_qc
calculate_statevector(qc, raises) ==
    IF raises THEN None ELSE Statevector(qc)

(* ------------------------------ sidebar ------------------------------- *)

qubit_indices(s) == 0..(s["num_qubits"] - 1)

\* faulty variant: the control qubit stays among the targets
target_options_all(s, control) == qubit_indices(s)

\* line 109
target_options(s, control) == {q \in qubit_indices(s) : q # control}

\* the params dictionaries the widgets of lines 100-112 can build for a gate
\* type; a key the code does not set is absent, None stands for params = None
ParamsOffered(gate_type, s) ==
    IF gate_type \in {"H", "X", "Z", "Medir Qubit"}
    THEN {[gate |-> gate_type, target |-> t] : t \in qubit_indices(s)}
    ELSE IF gate_type = "RZ"
    THEN {[gate |-> gate_type, target |-> t, theta |-> th] :
              t \in qubit_indices(s), th \in Thetas}
    ELSE IF gate_type = "CNOT"
    THEN IF s["num_qubits"] > 1
         THEN UNION {IF target_options(s, c) # {}
                     THEN {[gate |-> gate_type, control |-> c, target |-> t] :
                               t \in target_options(s, c)}
                     ELSE {[gate |-> gate_type, control |-> c]}
                     : c \in qubit_indices(s)}
         ELSE {None}
    ELSE {[gate |-> gate_type]}

\* lines 116-121: the call on the circuit that the params select
ApplyParams(qc, params) ==
    LET gate == params.gate IN
    IF gate = "H" THEN qc_h(qc, params.target)
    ELSE IF gate = "X" THEN qc_x(qc, params.target)
    ELSE IF gate = "Z" THEN qc_z(qc, params.target)
    ELSE IF gate = "RZ" THEN qc_rz(qc, params.theta, params.target)
    ELSE IF gate = "CNOT" /\ "target" \in DOMAIN params
         THEN qc_cx(qc, params.control, params.target)
    ELSE IF gate = "Medir Qubit" THEN qc_measure(qc, params.target, params.target)
    ELSE IF gate = "Medir Todos" THEN measure_all(qc)
    ELSE qc

\* faulty variant: only the counts are cleared
ClearResults_counts_only(s) == Set(s, "counts", None)

ClearResults(s) == Set(Set(s, "counts", None), "statevector", None)

\* faulty variant: the cached results survive the edit
add_operation_keeps_results(s, params) ==
    Set(s, "circuit", ApplyParams(s["circuit"], params))

\* lines 115-122, the body of the button's if
add_operation(s, params) ==
    ClearResults(Set(s, "circuit", ApplyParams(s["circuit"], params)))

ExampleCircuit(example_circuit) ==
    IF example_circuit = "Teste 1: Superposição"
    THEN qc_measure(qc_h(QuantumCircuit(1, 1), 0), 0, 0)
    ELSE IF example_circuit = "Teste 2: Emaranhamento"
    THEN measure_all(qc_cx(qc_h(QuantumCircuit(2, 2), 0), 0, 1))
    ELSE qc_measure(qc_h(qc_h(QuantumCircuit(1, 1), 0), 0), 0, 0)

\* faulty variant: the example's qubit count is not stored
load_example_keeps_width(s, example_circuit) ==
    LET s1 == ClearResults(s) IN
    IF example_circuit = "Nenhum" THEN s1
    ELSE Set(s1, "circuit", ExampleCircuit(example_circuit))

\* lines 83-89, the body of the button's if
load_example(s, example_circuit) ==
    LET s1 == ClearResults(s) IN
    IF example_circuit = "Nenhum" THEN s1
    ELSE LET qc == ExampleCircuit(example_circuit)
         IN  Set(Set(s1, "num_qubits", qc.num_qubits), "circuit", qc)

\* faulty variant: the selection is not stored
select_num_qubits_ignored(s, new_num_qubits) == s

\* lines 96-98
select_num_qubits(s, new_num_qubits) ==
    IF new_num_qubits # s["num_qubits"]
    THEN initialize_app_state(Set(s, "num_qubits", new_num_qubits))
    ELSE s

(* ----------------------------- main area ------------------------------ *)

NOT_SHOWN == "<analysis not shown>"

Truthy(counts) == counts # None /\ DOMAIN counts.dist # {}

\* lines 147-159: the analysis text of the run
display_analysis(s) ==
    LET counts == Get(s, "counts", None) IN
    IF Truthy(counts) THEN interpret_results(counts.dist, s["num_qubits"])
    ELSE NOT_SHOWN

(* ------------------------------ actions ------------------------------- *)

\* st.rerun(): the next run opens with initialize_app_state() and renders
Rerun(s, ev) ==
    /\ session_state' = initialize_app_state(s)
    /\ analysis' = display_analysis(initialize_app_state(s))
    /\ event' = ev

Init ==
    /\ session_state = initialize_app_state(EmptySession)
    /\ analysis = display_analysis(initialize_app_state(EmptySession))
    /\ event = [kind |-> "start"]

LoadExample ==
    \E example_circuit \in Examples :
        Rerun(load_example(session_state, example_circuit),
              [kind |-> "example", example |-> example_circuit])

SelectNumQubits ==
    \E new_num_qubits \in num_qubits_options :
        Rerun(select_num_qubits(session_state, new_num_qubits),
              [kind |-> "select", n |-> new_num_qubits])

AddOperation ==
    /\ Len(session_state["circuit"].data) * session_state["circuit"].num_qubits < MaxData
    /\ \E gate_type \in GateTypes :
         \E params \in ParamsOffered(gate_type, session_state) :
            Rerun(IF params # None THEN add_operation(session_state, params)
                  ELSE session_state,
                  [kind |-> "add", gate_type |-> gate_type, params |-> params])

ResetCircuit ==
    Rerun(force_reset_circuit(session_state), [kind |-> "reset"])

ExecuteMeasurements ==
    \E job \in Jobs(SHOTS) :
        Rerun(Set(session_state, "counts",
                  run_measurement_simulation(session_state["circuit"], SHOTS, job)),
              [kind |-> "execute", raised |-> job.raises])

\* faulty variant: the measures are stripped from the session circuit itself
CalculateStatevector_in_place ==
    \E raises \in BOOLEAN :
        Rerun(Set(Set(session_state, "circuit",
                      StripMeasures(session_state["circuit"])),
                  "statevector",
                  calculate_statevector(session_state["circuit"], raises)),
              [kind |-> "statevector", raised |-> raises])

CalculateStatevector ==
    \E raises \in BOOLEAN :
        Rerun(Set(session_state, "statevector",
                  calculate_statevector(session_state["circuit"], raises)),
              [kind |-> "statevector", raised |-> raises])

Next ==
    \/ LoadExample
    \/ SelectNumQubits
    \/ AddOperation
    \/ ResetCircuit
    \/ ExecuteMeasurements
    \/ CalculateStatevector

Spec == Init /\ [][Next]_vars

(* ------------- the interpreter on its own input domain ---------------- *)

CountValues == (0..MaxCount) \cup {99, 100, 450, SHOTS}

\* bitstring keys a distribution for n qubits is drawn over
InterpKeys(n) ==
    IF n = 1 THEN {"0", "1", "1 0"}
    ELSE IF n = 2 THEN {"00", "11", "01"}
    ELSE IF n = 3 THEN {"000", "111"}
    ELSE {"0000", "1111"}

\* the dictionary holding the outcomes observed at least once
Dict(f) == [k \in {x \in DOMAIN f : f[x] > 0} |-> f[k]]

InterpSession(n, d) ==
    LET qc == QuantumCircuit(n, n)
        s == force_reset_circuit(Set(EmptySession, "num_qubits", n))
    IN  Set(s, "counts", [dist |-> d, qc |-> qc])

InterpInit ==
    /\ session_state \in UNION {{InterpSession(n, Dict(f)) :
                                    f \in [InterpKeys(n) -> CountValues]} :
                                n \in num_qubits_options}
    /\ analysis = NOT_SHOWN
    /\ event = [kind |-> "input"]

\* lines 147-159 on the drawn counts
Render ==
    /\ event.kind = "input"
    /\ analysis' = display_analysis(session_state)
    /\ event' = [kind |-> "render"]
    /\ UNCHANGED session_state

\* interpret_results called on the drawn counts, empty or not
Interpret ==
    /\ event.kind = "input"
    /\ analysis' = interpret_results(session_state["counts"].dist,
                                     session_state["num_qubits"])
    /\ event' = [kind |-> "interpret"]
    /\ UNCHANGED session_state

InterpNext ==
    \/ Render
    \/ Interpret

InterpSpec == InterpInit /\ [][InterpNext]_vars

(* ------------------------- app.py (CirQuant) -------------------------- *)

\* gate buttons are pressed while the history holds fewer entries
MaxHistory == 3

\* positions of the sliders "Ângulo Rx/Ry/Rz (graus)" the buttons are pressed at
AppThetas == {90, 180}

Presets == {"Nenhum", "Estado Bell", "Teletransporte Quântico",
            "Gerador de Bits Aleatórios (Qubit 0)"}

SliderValues == {1, 2}

qc_y(qc, q) == Append1(qc, Instr("y", <<q>>, <<>>, <<>>))
qc_rx(qc, theta, q) == Append1(qc, Instr("rx", <<q>>, <<>>, <<[deg2rad |-> theta]>>))
qc_ry(qc, theta, q) == Append1(qc, Instr("ry", <<q>>, <<>>, <<[deg2rad |-> theta]>>))
qc_swap(qc, a, b) == Append1(qc, Instr("swap", <<a, b>>, <<>>, <<>>))

\* faulty variant: the history is kept when the circuit is replaced
initialize_circuit_keeps_history(s, n) ==
    Set(Set(s, "qc", QuantumCircuit(n, n)), "history", Get(s, "history", <<>>))

\* lines 40-44
initialize_circuit(s, n) ==
    Set(Set(s, "qc", QuantumCircuit(n, n)), "history", <<>>)

\* faulty variant: an existing circuit is kept whatever the slider says
app_init_check_no_compare(s, n) ==
    IF ~Has(s, "qc") THEN initialize_circuit(s, n) ELSE s

\* lines 56-60: the slider value is read, the circuit is initialized the first
\* time and when its width differs from the slider value
app_init_check(s, n) ==
    IF ~Has(s, "qc") \/ s["qc"].num_qubits # n
    THEN initialize_circuit(s, n)
    ELSE s

\* the gate buttons rendered for a slider value (lines 74-118); each gives the
\* call on the circuit and the entry appended to the history
GateButtons(n) ==
    IF n = 1
    THEN {[gate |-> g, q |-> <<0>>, theta |-> 0] : g \in {"h", "x", "y", "z"}}
         \cup {[gate |-> g, q |-> <<0>>, theta |-> th] :
                   g \in {"rx", "ry", "rz"}, th \in AppThetas}
    ELSE IF n = 2
    THEN {[gate |-> g, q |-> <<k>>, theta |-> 0] : g \in {"h", "x"}, k \in {0, 1}}
         \cup {[gate |-> g, q |-> <<0, 1>>, theta |-> 0] : g \in {"cx", "swap"}}
    ELSE {}

ApplyButton(qc, b) ==
    IF b.gate = "h" THEN qc_h(qc, b.q[1])
    ELSE IF b.gate = "x" THEN qc_x(qc, b.q[1])
    ELSE IF b.gate = "y" THEN qc_y(qc, b.q[1])
    ELSE IF b.gate = "z" THEN qc_z(qc, b.q[1])
    ELSE IF b.gate = "rx" THEN qc_rx(qc, b.theta, b.q[1])
    ELSE IF b.gate = "ry" THEN qc_ry(qc, b.theta, b.q[1])
    ELSE IF b.gate = "rz" THEN qc_rz(qc, b.theta, b.q[1])
    ELSE IF b.gate = "cx" THEN qc_cx(qc, b.q[1], b.q[2])
    ELSE qc_swap(qc, b.q[1], b.q[2])

\* the string the button appends to the history
HistoryEntry(b) ==
    IF b.gate \in {"h", "x", "y", "z"}
    THEN (CASE b.gate = "h" -> "H(" [] b.gate = "x" -> "X("
            [] b.gate = "y" -> "Y(" [] b.gate = "z" -> "Z(")
         \o ToString(b.q[1]) \o ")"
    ELSE IF b.gate \in {"rx", "ry", "rz"}
    THEN (CASE b.gate = "rx" -> "Rx(" [] b.gate = "ry" -> "Ry("
            [] b.gate = "rz" -> "Rz(")
         \o ToString(b.theta) \o "°, 0)"
    ELSE IF b.gate = "cx" THEN "CNOT(0,1)"
    ELSE "SWAP(0,1)"

press_gate(s, b) ==
    Set(Set(s, "qc", ApplyButton(s["qc"], b)),
        "history", Append(s["history"], HistoryEntry(b)))

\* the qubit count a preset's load button is rendered for (lines 126-157);
\* 0 stands for no button
PresetQubits(preset) ==
    IF preset \in {"Estado Bell", "Teletransporte Quântico"} THEN 2
    ELSE IF preset = "Gerador de Bits Aleatórios (Qubit 0)" THEN 1
    ELSE 0

\* lines 127-162, the bodies of the three load buttons
load_preset(s, preset) ==
    IF preset = "Estado Bell"
    THEN LET s1 == initialize_circuit(s, 2)
         IN  Set(Set(s1, "qc", qc_cx(qc_h(s1["qc"], 0), 0, 1)),
                 "history", <<"H(0)", "CNOT(0,1)">>)
    ELSE IF preset = "Teletransporte Quântico"
    THEN LET s1 == initialize_circuit(s, 2)
         IN  Set(Set(s1, "qc", qc_cx(qc_h(qc_cx(qc_h(s1["qc"], 0), 0, 1), 0), 0, 1)),
                 "history", <<"H(0)", "CNOT(0,1)", "H(0)",
                              "CNOT(0,1) (Simulação Teletransporte)">>)
    ELSE LET s1 == initialize_circuit(s, 1)
         IN  Set(Set(s1, "qc", qc_h(s1["qc"], 0)), "history", <<"H(0)">>)

\* lines 18-26: the copy of the circuit that is measured for the histogram
get_state_probabilities(qc, n) ==
    IF n = 1 THEN qc_measure(qc, 0, 0)
    ELSE qc_measure(qc_measure(qc, 0, 0), 1, 1)

RECURSIVE Join(_, _)
Join(sep, strs) ==
    IF strs = <<>> THEN ""
    ELSE IF Len(strs) = 1 THEN strs[1]
    ELSE (strs[1] \o sep) \o Join(sep, Tail(strs))

\* line 169
history_text(s) == "Histórico de Operações: " \o Join(" -> ", s["history"])

slider(s) == Get(s, "num_qubits_slider", 1)

\* one script run: the slider value n is read, the circuit is initialized if
\* needed, the pressed button (if any) acts, the history is shown
AppRun(n, ev) ==
    LET s0 == app_init_check(Set(session_state, "num_qubits_slider", n), n)
        s1 == IF ev.kind = "reiniciar" THEN initialize_circuit(s0, n)
              ELSE IF ev.kind = "gate" THEN press_gate(s0, ev.button)
              ELSE IF ev.kind = "load_preset" THEN load_preset(s0, ev.preset)
              ELSE s0
    IN  /\ session_state' = s1
        /\ analysis' = history_text(s1)
        /\ event' = ev

AppInit ==
    /\ session_state = app_init_check(Set(EmptySession, "num_qubits_slider", 1), 1)
    /\ analysis = history_text(session_state)
    /\ event = [kind |-> "start"]

MoveSlider ==
    \E n \in SliderValues \ {slider(session_state)} :
        AppRun(n, [kind |-> "slider", n |-> n])

Reiniciar == AppRun(slider(session_state), [kind |-> "reiniciar"])

PressGate ==
    /\ Len(session_state["history"]) < MaxHistory
    /\ \E b \in GateButtons(slider(session_state)) :
          AppRun(slider(session_state), [kind |-> "gate", button |-> b])

SelectPreset ==
    \E preset \in Presets :
        AppRun(slider(session_state), [kind |-> "select_preset", preset |-> preset])

LoadPreset ==
    \E preset \in Presets :
        /\ PresetQubits(preset) = slider(session_state)
        /\ AppRun(slider(session_state), [kind |-> "load_preset", preset |-> preset])

AppNext ==
    \/ MoveSlider
    \/ Reiniciar
    \/ PressGate
    \/ SelectPreset
    \/ LoadPreset

AppSpec == AppInit /\ [][AppNext]_vars

(* ---------------------------- properties ------------------------------ *)

num_qubits == session_state["num_qubits"]
circuit == session_state["circuit"]
counts == session_state["counts"]
statevector == session_state["statevector"]

IsPrefix(a, b) == Len(a) <= Len(b) /\ SubSeq(b, 1, Len(a)) = a

\* the part of the data of after that follows the data of before
Appended(before, after) == SubSeq(after.data, Len(before.data) + 1, Len(after.data))

\* C1: whenever counts or statevector is present in the session, it is the
\* result of a job run on the session circuit exactly as it is now.
C1_ResultsOfCurrentCircuit ==
    /\ counts # None => counts.qc = circuit
    /\ statevector # None => statevector.qc = circuit

C1_Witness ==
    /\ counts # None
    /\ statevector # None
    /\ Len(circuit.data) = 2
    /\ event.kind = "statevector"

\* C2 (as stated): after every 'Adicionar Operação' press, whatever is
\* selected, counts and statevector are both absent.
C2_EveryPressClears ==
    event.kind = "add" => counts = None /\ statevector = None

\* C2 (amended): a press for which the sidebar built a params dictionary
\* leaves counts and statevector absent; a press with params = None (CNOT
\* selected on a 1-qubit circuit) leaves the whole session as it was.
C2_PressWithParamsClears ==
    [][event'.kind = "add" =>
          IF event'.params # None
          THEN counts' = None /\ statevector' = None
          ELSE /\ event'.gate_type = "CNOT"
               /\ num_qubits = 1
               /\ session_state' = session_state]_vars

C2_Witness ==
    /\ event.kind = "add"
    /\ event.gate_type = "CNOT"
    /\ event.params # None
    /\ Len(circuit.data) = 2
    /\ counts = None
    /\ statevector = None

\* C3: 'Resetar Circuito' keeps the session's qubit count n and leaves an
\* empty circuit of n qubits and n classical bits, counts and statevector
\* absent.
C3_ResetYieldsEmptyCircuit ==
    [][event'.kind = "reset" =>
          /\ num_qubits' = num_qubits
          /\ circuit' = QuantumCircuit(num_qubits, num_qubits)
          /\ counts' = None
          /\ statevector' = None]_vars

C3_Witness ==
    /\ event.kind = "reset"
    /\ num_qubits = 3
    /\ circuit.data = <<>>
    /\ counts = None
    /\ statevector = None

\* C4: selecting a qubit count that differs from the current one stores it and
\* resets to an empty circuit of that width with no results; selecting the
\* current value changes nothing in the session.
C4_SelectResetsIffDifferent ==
    [][event'.kind = "select" =>
          IF event'.n # num_qubits
          THEN /\ num_qubits' = event'.n
               /\ circuit' = QuantumCircuit(event'.n, event'.n)
               /\ counts' = None
               /\ statevector' = None
          ELSE session_state' = session_state]_vars

C4_Witness ==
    /\ event.kind = "select"
    /\ event.n = 4
    /\ num_qubits = 4
    /\ circuit = QuantumCircuit(4, 4)

\* C6: every instruction of the session circuit acts on qubits inside
\* [0, num_qubits) and classical bits the circuit has, and every CNOT has a
\* control different from its target.
C6_IndicesInRange ==
    \A i \in 1..Len(circuit.data) :
        LET ins == circuit.data[i] IN
        /\ \A j \in 1..Len(ins.qubits) : ins.qubits[j] \in 0..(num_qubits - 1)
        /\ \A j \in 1..Len(ins.clbits) : ins.clbits[j] \in 0..(num_clbits(circuit) - 1)
        /\ ins.name = "cx" => ins.qubits[1] # ins.qubits[2]

C6_Witness ==
    /\ event.kind = "add"
    /\ num_qubits = 3
    /\ \E i \in 1..Len(circuit.data) :
          circuit.data[i].name = "cx" /\ circuit.data[i].qubits = <<2, 0>>

\* C7: a press of 'Adicionar Operação' with a params dictionary keeps the
\* qubit count, keeps the instructions already in the circuit as a prefix, and
\* what follows them is the selected operation on the selected qubits.
C7_AddAppends ==
    [][event'.kind = "add" /\ event'.params # None =>
          LET p == event'.params
              added == Appended(circuit, circuit')
              n == num_qubits
          IN  /\ num_qubits' = n
              /\ circuit'.num_qubits = n
              /\ IsPrefix(circuit.data, circuit'.data)
              /\ IF p.gate = "Medir Todos"
                 THEN /\ Len(added) = n + 1
                      /\ added[1].name = "barrier"
                      /\ \A q \in 0..(n - 1) :
                            /\ added[q + 2].name = "measure"
                            /\ added[q + 2].qubits = <<q>>
                 ELSE /\ Len(added) = 1
                      /\ added[1].name =
                            (CASE p.gate = "H" -> "h"
                               [] p.gate = "X" -> "x"
                               [] p.gate = "Z" -> "z"
                               [] p.gate = "RZ" -> "rz"
                               [] p.gate = "CNOT" -> "cx"
                               [] p.gate = "Medir Qubit" -> "measure")
                      /\ added[1].qubits =
                            (IF p.gate = "CNOT" THEN <<p.control, p.target>>
                             ELSE <<p.target>>)]_vars

C7_Witness ==
    /\ event.kind = "add"
    /\ event.params # None
    /\ Len(circuit.data) = 2
    /\ circuit.data[1].name = "measure"
    /\ circuit.data[2].name = "rz"

\* C8: at the start of rendering the session qubit count is one of 1, 2, 3, 4
\* and the session circuit has that many qubits.
C8_QubitCountConsistent ==
    /\ num_qubits \in num_qubits_options
    /\ circuit.num_qubits = num_qubits

C8_Witness ==
    /\ event.kind = "select"
    /\ num_qubits = 4
    /\ circuit.num_qubits = 4

\* C9: for a non-empty 1-qubit distribution the analysis is the superposition
\* message exactly when counts['0'] / total and counts['1'] / total both lie
\* strictly between 0.4 and 0.6.
C9_SuperpositionBand ==
    event.kind = "render" /\ num_qubits = 1 /\ DOMAIN counts.dist # {} =>
        LET total == SumValues(counts.dist)
            c0 == dict_get(counts.dist, "0")
            c1 == dict_get(counts.dist, "1")
            InBand(c) == 2 * total < 5 * c /\ 5 * c < 3 * total
        IN  (analysis = MSG_SUPERPOSICAO) <=> (InBand(c0) /\ InBand(c1))

C9_Witness ==
    /\ event.kind = "render"
    /\ num_qubits = 1
    /\ DOMAIN counts.dist = {"0", "1", "1 0"}
    /\ analysis = MSG_SUPERPOSICAO

\* C10: for a non-empty 1-qubit distribution with counts['0'] / total above
\* 0.99 the analysis is the destructive-interference message.
C10_InterferenceAbove099 ==
    event.kind = "render" /\ num_qubits = 1 /\ DOMAIN counts.dist # {} =>
        LET total == SumValues(counts.dist)
            c0 == dict_get(counts.dist, "0")
        IN  100 * c0 > 99 * total => analysis = MSG_INTERFERENCIA

C10_Witness ==
    /\ event.kind = "render"
    /\ num_qubits = 1
    /\ counts.dist = [k \in {"0"} |-> SHOTS]
    /\ analysis = MSG_INTERFERENCIA

C12_EntanglementIff ==
    event.kind = "render" /\ num_qubits = 2 /\ DOMAIN counts.dist # {} =>
        LET total == SumValues(counts.dist)
            c00 == dict_get(counts.dist, "00")
            c11 == dict_get(counts.dist, "11")
        IN  analysis = (IF /\ 5 * c00 > 2 * total
                           /\ 5 * c11 > 2 * total
                           /\ 10 * (total - c00 - c11) < total
                        THEN MSG_EMARANHAMENTO ELSE MSG_DISTRIBUICAO)

\* C13: interpret_results returns the empty message for every distribution
\* when the qubit count is neither 1 nor 2, and for the empty distribution at
\* every qubit count.
C13_EmptyMessage ==
    event.kind = "interpret"
      /\ (num_qubits \notin {1, 2} \/ DOMAIN counts.dist = {}) =>
        analysis = MSG_VAZIA

C13_Witness ==
    /\ event.kind = "interpret"
    /\ num_qubits = 3
    /\ DOMAIN counts.dist = {"000", "111"}
    /\ analysis = MSG_VAZIA

\* C14: a run of 'Executar Medições' in which the backend raises ends with
\* counts absent and circuit, qubit count and statevector as before; a run of
\* 'Calcular Vetor de Estado' in which it raises ends with statevector absent
\* and circuit, qubit count and counts as before.  The session keeps all its
\* keys, so every handler can run again.
C14_FailureIsLocal ==
    [][/\ event'.kind = "execute" /\ event'.raised =>
             /\ counts' = None
             /\ circuit' = circuit
             /\ num_qubits' = num_qubits
             /\ statevector' = statevector
       /\ event'.kind = "statevector" /\ event'.raised =>
             /\ statevector' = None
             /\ circuit' = circuit
             /\ num_qubits' = num_qubits
             /\ counts' = counts
       /\ event'.kind \in {"execute", "statevector"} =>
             DOMAIN session_state' = {"num_qubits", "circuit", "counts", "statevector"}]_vars

C14_Witness ==
    /\ event.kind = "statevector"
    /\ event.raised
    /\ statevector = None
    /\ counts # None
    /\ HasMeasure(circuit)

\* C15: 'Carregar Circuito de Exemplo' leaves, whatever the session held, for
\* Teste 1 one qubit with H(0), measure 0; for Teste 2 two qubits with H(0),
\* CNOT(0,1), measure all; for Teste 3 one qubit with H(0), H(0), measure 0;
\* for Nenhum the circuit and the qubit count as they were; counts and
\* statevector are absent in all four cases, also after the next run started.
C15_ExampleReplacesCircuit ==
    [][event'.kind = "example" =>
          LET names == [i \in 1..Len(circuit'.data) |-> circuit'.data[i].name]
              qubits == [i \in 1..Len(circuit'.data) |-> circuit'.data[i].qubits]
              ex == event'.example
          IN  /\ counts' = None
              /\ statevector' = None
              /\ circuit'.num_qubits = num_qubits'
              /\ ex = "Nenhum" => circuit' = circuit /\ num_qubits' = num_qubits
              /\ ex = "Teste 1: Superposição" =>
                    /\ num_qubits' = 1
                    /\ names = <<"h", "measure">>
                    /\ qubits = <<(<<0>>), (<<0>>)>>
              /\ ex = "Teste 2: Emaranhamento" =>
                    /\ num_qubits' = 2
                    /\ names = <<"h", "cx", "barrier", "measure", "measure">>
                    /\ qubits = <<(<<0>>), (<<0, 1>>), (<<0, 1>>), (<<0>>), (<<1>>)>>
              /\ ex = "Teste 3: Interferência" =>
                    /\ num_qubits' = 1
                    /\ names = <<"h", "h", "measure">>
                    /\ qubits = <<(<<0>>), (<<0>>), (<<0>>)>>]_vars

C15_Witness ==
    /\ event.kind = "example"
    /\ event.example = "Teste 2: Emaranhamento"
    /\ num_qubits = 2
    /\ Len(circuit.data) = 5
    /\ counts = None
    /\ statevector = None

\* C17: 'Executar Medições' changes at most counts and 'Calcular Vetor de
\* Estado' at most statevector: the circuit, measures included, and the qubit
\* count stay, and the other cached result stays.
C17_SimulationFrame ==
    [][/\ event'.kind = "execute" =>
             /\ circuit' = circuit
             /\ num_qubits' = num_qubits
             /\ statevector' = statevector
       /\ event'.kind = "statevector" =>
             /\ circuit' = circuit
             /\ num_qubits' = num_qubits
             /\ counts' = counts]_vars

C17_Witness ==
    /\ event.kind = "statevector"
    /\ ~event.raised
    /\ statevector # None
    /\ counts # None
    /\ HasMeasure(circuit)
    /\ \A i \in 1..Len(statevector.state) : statevector.state[i].name # "measure"

\* C18: whenever counts is present the session circuit contains a measure
\* instruction.
C18_CountsNeedMeasure ==
    counts # None => HasMeasure(circuit)

C18_Witness ==
    /\ event.kind = "execute"
    /\ counts # None
    /\ HasMeasure(circuit)
    /\ num_qubits = 3

\* C19: after Teste 2 is loaded and 'Executar Medições' returns counts with
\* exactly two outcomes, each seen in more than 40% of the shots, the analysis
\* shown is the entanglement message.
C19_BellExampleShowsEntanglement ==
    /\ event.kind = "execute"
    /\ circuit = ExampleCircuit("Teste 2: Emaranhamento")
    /\ counts # None
    /\ Cardinality(DOMAIN counts.dist) = 2
    /\ \A k \in DOMAIN counts.dist : 10 * counts.dist[k] > 4 * SHOTS
    => analysis = MSG_EMARANHAMENTO

\* C16: the circuit is empty with an empty history after the first run, after
\* a move of the slider and after 'Reiniciar Circuito'; in every run the
\* circuit has as many qubits as the slider says (1 or 2), every gate in it and
\* every measure of the histogram's copy acts on qubits the circuit has.
C16_CircuitMatchesSlider ==
    LET qc == session_state["qc"]
        n == session_state["num_qubits_slider"]
        measured == get_state_probabilities(qc, n)
    IN  /\ n \in {1, 2}
        /\ qc.num_qubits = n
        /\ event.kind \in {"start", "slider", "reiniciar"} =>
              qc.data = <<>> /\ session_state["history"] = <<>>
        /\ \A i \in 1..Len(measured.data) :
              \A j \in 1..Len(measured.data[i].qubits) :
                  measured.data[i].qubits[j] \in 0..(qc.num_qubits - 1)

C16_Witness ==
    /\ event.kind = "slider"
    /\ event.n = 1
    /\ session_state["qc"] = QuantumCircuit(1, 1)
    /\ session_state["history"] = <<>>

\* C20: the history has one entry per gate of the circuit, in the order of the
\* gates, each naming its gate; a loaded preset leaves 2 gates and 2 entries
\* (Bell), 4 and 4 (teleport), 1 and 1 (random bit), and is only ever loaded
\* when the slider value is the qubit count the preset requires.
C20_HistoryMirrorsCircuit ==
    LET qc == session_state["qc"]
        history == session_state["history"]
        Names(g) ==
            CASE g.name = "h" -> {"H(" \o ToString(g.qubits[1]) \o ")"}
              [] g.name = "x" -> {"X(" \o ToString(g.qubits[1]) \o ")"}
              [] g.name = "y" -> {"Y(0)"}
              [] g.name = "z" -> {"Z(0)"}
              [] g.name = "rx" -> {"Rx(" \o ToString(g.params[1].deg2rad) \o "°, 0)"}
              [] g.name = "ry" -> {"Ry(" \o ToString(g.params[1].deg2rad) \o "°, 0)"}
              [] g.name = "rz" -> {"Rz(" \o ToString(g.params[1].deg2rad) \o "°, 0)"}
              [] g.name = "cx" -> {"CNOT(0,1)", "CNOT(0,1) (Simulação Teletransporte)"}
              [] g.name = "swap" -> {"SWAP(0,1)"}
              [] OTHER -> {}
    IN  /\ Len(history) = Len(qc.data)
        /\ \A i \in 1..Len(history) : history[i] \in Names(qc.data[i])
        /\ event.kind = "load_preset" =>
              /\ PresetQubits(event.preset) = session_state["num_qubits_slider"]
              /\ Len(history) =
                    (CASE event.preset = "Estado Bell" -> 2
                       [] event.preset = "Teletransporte Quântico" -> 4
                       [] OTHER -> 1)

C20_Witness ==
    /\ event.kind = "gate"
    /\ Len(session_state["history"]) = 3
    /\ session_state["history"][1] = "H(0)"
    /\ session_state["history"][2] = "CNOT(0,1)"
    /\ session_state["history"][3] = "SWAP(0,1)"

====
